---- MODULE Spec2Model ----
(***************************************************************************)
(* Model of the Energenie MiHome driver (hw/energenie/mihome.go): the      *)
(* logical radio mode, the two configuration sequences, the OOK command    *)
(* codec, SendControl, the Receive loop with cooperative cancellation,     *)
(* ResetRadio and MeasureTemperature.  The RFM69 transceiver, the GPIO     *)
(* lines, the OpenThings decoder and the publish/subscribe bus are the     *)
(* driver's collaborators: every transceiver call may fail, the decoder    *)
(* may return any combination of message and failure.                      *)
(***************************************************************************)
EXTENDS Integers, Sequences, FiniteSets, TLC

VARIABLES
    mode,        \* this.mode: logical mode of the driver
    radio,       \* what the transceiver reports: [mode, modulation]
    hw,          \* configuration applied to the transceiver: [seq, state]
    wiring,      \* pins given to Open: [reset, led1, led2]
    pins,        \* level of every GPIO line
    pc,          \* "idle", where the running call is blocked or waits, or
                 \* "returned"
    cancelled,   \* the context given to Receive is done
    call,        \* the running (or last) call: its name and arguments, the
                 \* logical mode (entry), the transceiver and the GPIO
                 \* lines at its start
    ret,         \* its return value ("pending" while it runs)
    log,         \* transceiver calls it has issued, in order
    gpiolog,     \* GPIO calls it has issued, in order
    written,     \* (payload, repeat) pairs it handed to WritePayload
    events,      \* events it has emitted on the bus
    reads,       \* ReadPayload calls it has issued
    fault,       \* error the transceiver returned to it ("nil" if none)
    frames,      \* outcomes of its ReadPayload calls that returned, in order
    prev,        \* the previous call, if a SendControl, Receive or ResetRadio
                 \* that returned nil, else "none"
    prevcfg,     \* configuration sequences the previous call issued
    mark,        \* reads and events of the running Receive when its context
                 \* became done
    codec,       \* the codec function last applied, its input and its result
    driver,      \* the configuration given to Open and what Open stored:
                 \* [state, config, cid, repeat, err]
    outer,       \* the running On or Off: its sockets, how many it has
                 \* handled, the SendControl calls it has issued, its result
    bus          \* the event bus with one subscriber, and that subscriber's
                 \* loop

vars == <<mode, radio, hw, wiring, pins, pc, cancelled, call, ret, log,
          gpiolog, written, events, reads, fault, frames, prev, prevcfg, mark, codec,
          driver, outer, bus>>

----------------------------------------------------------------------------
(* Bounds of the model *)

\* most ReadPayload calls of one Receive
MaxReads == 2
\* largest repeat count given to SendControl
MaxRepeat == 1
MaxCidLen == 4
MaxSocket == 6
MaxSockets == 2
MaxQueue == 3

----------------------------------------------------------------------------
(* Constants of the driver *)

REPEAT_DEFAULT == 8

OOK_PREAMBLE == <<128, 0, 0, 0>>

OOK_ZERO == 8
OOK_ONE == 14

OOK_NONE == 0
OOK_ON_ALL == 13
OOK_OFF_ALL == 12
OOK_ON_1 == 15
OOK_OFF_1 == 14
OOK_ON_2 == 7
OOK_OFF_2 == 6
OOK_ON_3 == 11
OOK_OFF_3 == 10
OOK_ON_4 == 3
OOK_OFF_4 == 2

GPIO_PIN_NONE == "NONE"

MIHOME_MODES == {"NONE", "CONTROL", "MONITOR"}

\* gopi errors returned by the driver itself
ErrBadParameter == "ErrBadParameter"
ErrNotImplemented == "ErrNotImplemented"
ErrAppError == "ErrAppError"

\* errors a transceiver call can return
RadioErrors == {"EIO", "ETIMEDOUT"}

----------------------------------------------------------------------------
(* OOK command codec *)

\* value << n in a byte
Shl(value, n) == (value * (2 ^ n)) % 256

Nibble_LowBit(value) == IF value % 2 = 0 THEN OOK_ZERO ELSE OOK_ONE

\* the nibble of the top bit of value
Nibble(value) == IF (value \div 128) % 2 = 0 THEN OOK_ZERO ELSE OOK_ONE

\* encodeByte: 4 bytes, two nibbles each, most significant bit first
encodeByte(value) ==
    [i \in 1..4 |->
        ((Nibble(Shl(value, 2 * (i - 1))) * 16) % 256)
            + Nibble(Shl(value, 2 * (i - 1) + 1))]

\* A byte slice: nil is a slice of length 0 that compares equal to nil
NilBytes == [nil |-> TRUE, bytes |-> <<>>]
Bytes(s) == [nil |-> FALSE, bytes |-> s]

RECURSIVE Concat4(_)
Concat4(s) == IF s = <<>> THEN <<>> ELSE encodeByte(Head(s)) \o Concat4(Tail(s))

\* encodeByteArray: nil for nil, else 4 bytes per byte
encodeByteArray(array) ==
    IF array.nil THEN NilBytes ELSE Bytes(Concat4(array.bytes))

encodeCommandPayload_Head(cid, cmd) ==
    LET encoded_cmd == encodeByte(cmd)
        encoded_cid == encodeByteArray(cid).bytes
    IN  IF Len(encoded_cid) # 12 THEN [err |-> ErrAppError, payload |-> <<>>]
        ELSE [err |-> "nil",
              payload |-> OOK_PREAMBLE
                            \o SubSeq(encoded_cid, 1, 10)
                            \o SubSeq(encoded_cmd, 1, 2)]

\* encodeCommandPayload: [err, payload]
encodeCommandPayload(cid, cmd) ==
    LET encoded_cmd == encodeByte(cmd)
        encoded_cid == encodeByteArray(cid).bytes
    IN  IF Len(encoded_cmd) # 4 THEN [err |-> ErrAppError, payload |-> <<>>]
        ELSE IF Len(encoded_cid) # 12 THEN [err |-> ErrAppError, payload |-> <<>>]
        ELSE [err |-> "nil",
              payload |-> OOK_PREAMBLE
                            \o SubSeq(encoded_cid, 3, Len(encoded_cid))
                            \o SubSeq(encoded_cmd, 3, Len(encoded_cmd))]

onCommandForSocket(socket) ==
    CASE socket = 1 -> [cmd |-> OOK_ON_1, err |-> "nil"]
      [] socket = 2 -> [cmd |-> OOK_ON_2, err |-> "nil"]
      [] socket = 3 -> [cmd |-> OOK_ON_3, err |-> "nil"]
      [] socket = 4 -> [cmd |-> OOK_ON_4, err |-> "nil"]
      [] OTHER -> [cmd |-> OOK_NONE, err |-> ErrBadParameter]

offCommandForSocket_Pasted(socket) ==
    CASE socket = 1 -> [cmd |-> OOK_OFF_1, err |-> "nil"]
      [] socket = 2 -> [cmd |-> OOK_OFF_2, err |-> "nil"]
      [] socket = 3 -> [cmd |-> OOK_ON_3, err |-> "nil"]
      [] socket = 4 -> [cmd |-> OOK_OFF_4, err |-> "nil"]
      [] OTHER -> [cmd |-> OOK_NONE, err |-> ErrBadParameter]

offCommandForSocket(socket) ==
    CASE socket = 1 -> [cmd |-> OOK_OFF_1, err |-> "nil"]
      [] socket = 2 -> [cmd |-> OOK_OFF_2, err |-> "nil"]
      [] socket = 3 -> [cmd |-> OOK_OFF_3, err |-> "nil"]
      [] socket = 4 -> [cmd |-> OOK_OFF_4, err |-> "nil"]
      [] OTHER -> [cmd |-> OOK_NONE, err |-> ErrBadParameter]

----------------------------------------------------------------------------
(* Transceiver calls *)

Op(name, arg) == [op |-> name, arg |-> arg]

\* setFSKMode: the calls it issues, in order
FSKSequence ==
    << Op("SetMode", "STDBY"), Op("SetModulation", "FSK"),
       Op("SetSequencer", "true"), Op("SetBitrate", "4800"),
       Op("SetFreqCarrier", "434300000"), Op("SetFreqDeviation", "30000"),
       Op("SetAFCMode", "OFF"), Op("SetAFCRoutine", "STANDARD"),
       Op("SetLNA", "IMPEDANCE_50,GAIN_AUTO"),
       Op("SetRXFilter", "FSK_62P5,CUTOFF_4"),
       Op("SetDataMode", "PACKET"), Op("SetPacketFormat", "VARIABLE"),
       Op("SetPacketCoding", "MANCHESTER"), Op("SetPacketFilter", "NONE"),
       Op("SetPacketCRC", "OFF"), Op("SetPreambleSize", "3"),
       Op("SetPayloadSize", "64"), Op("SetSyncWord", "2D,D4"),
       Op("SetSyncTolerance", "0"), Op("SetNodeAddress", "04"),
       Op("SetBroadcastAddress", "FF"), Op("SetAESKey", "nil"),
       Op("SetFIFOThreshold", "1") >>

\* setOOKMode: the calls it issues, in order
OOKSequence ==
    << Op("SetMode", "STDBY"), Op("SetModulation", "OOK"),
       Op("SetSequencer", "true"), Op("SetBitrate", "4800"),
       Op("SetFreqCarrier", "433920000"), Op("SetFreqDeviation", "0"),
       Op("SetAFCMode", "OFF"), Op("SetDataMode", "PACKET"),
       Op("SetPacketFormat", "VARIABLE"), Op("SetPacketCoding", "NONE"),
       Op("SetPacketFilter", "NONE"), Op("SetPacketCRC", "OFF"),
       Op("SetPreambleSize", "0"), Op("SetPayloadSize", "0"),
       Op("SetSyncWord", "nil"), Op("SetAESKey", "nil"),
       Op("SetFIFOThreshold", "1") >>

\* A call that succeeds: SetMode and SetModulation change what the
\* transceiver reports, a call that fails changes nothing
RadioApply(r, o) ==
    IF o.op = "SetMode" THEN [r EXCEPT !.mode = o.arg]
    ELSE IF o.op = "SetModulation" THEN [r EXCEPT !.modulation = o.arg]
    ELSE r

RECURSIVE RadioApplyAll(_, _)
RadioApplyAll(r, ops) ==
    IF ops = <<>> THEN r ELSE RadioApplyAll(RadioApply(r, Head(ops)), Tail(ops))

\* Running ops in order where call number failAt fails (0: none fails):
\* the calls issued, and the calls that succeeded
Issued(ops, failAt) == IF failAt = 0 THEN ops ELSE SubSeq(ops, 1, failAt)
Succeeded(ops, failAt) == IF failAt = 0 THEN ops ELSE SubSeq(ops, 1, failAt - 1)

\* What a configuration sequence leaves applied on the transceiver
HwAfter(h, name, ops, failAt) ==
    IF failAt = 0 THEN [seq |-> name, state |-> "complete"]
    ELSE IF failAt = 1 THEN h
    ELSE [seq |-> name, state |-> "partial"]

----------------------------------------------------------------------------
(* Indicators *)

Pins == {"RESET", "LED1", "LED2"}

ledrx_NoFallback(w) == w.led1

\* Open: the pins of the RX and TX roles
ledrx(w) ==
    IF w.led2 = GPIO_PIN_NONE THEN w.led1
    ELSE IF w.led1 = GPIO_PIN_NONE THEN w.led2
    ELSE w.led1

ledtx(w) == IF w.led2 = GPIO_PIN_NONE THEN w.led1 ELSE w.led2

PinMode(p) == [pin |-> p, what |-> "SetPinMode", level |-> "OUTPUT"]
PinWrite(p, s) == [pin |-> p, what |-> "WritePin", level |-> s]

SetLEDPin_AlwaysSilent(p, state, silent) ==
    IF p = GPIO_PIN_NONE
    THEN [err |-> "nil", gpio |-> <<>>]
    ELSE [err |-> "nil", gpio |-> <<PinMode(p), PinWrite(p, state)>>]

\* SetLED: [err, gpio], the GPIO calls it issues
SetLEDPin(p, state, silent) ==
    IF p = GPIO_PIN_NONE
    THEN [err |-> IF silent THEN "nil" ELSE ErrNotImplemented, gpio |-> <<>>]
    ELSE [err |-> "nil", gpio |-> <<PinMode(p), PinWrite(p, state)>>]

SetLED(w, led, state) ==
    CASE led = "LED_ALL" ->
            LET r1 == IF w.led1 # GPIO_PIN_NONE
                      THEN SetLEDPin(w.led1, state, FALSE)
                      ELSE [err |-> "nil", gpio |-> <<>>]
                r2 == IF w.led2 # GPIO_PIN_NONE
                      THEN SetLEDPin(w.led2, state, FALSE)
                      ELSE [err |-> "nil", gpio |-> <<>>]
            IN  IF r1.err # "nil" THEN r1
                ELSE [err |-> r2.err, gpio |-> r1.gpio \o r2.gpio]
      [] led = "LED_1" -> SetLEDPin(w.led1, state, FALSE)
      [] led = "LED_2" -> SetLEDPin(w.led2, state, FALSE)
      [] led = "LED_RX" -> SetLEDPin(ledrx(w), state, TRUE)
      [] led = "LED_TX" -> SetLEDPin(ledtx(w), state, TRUE)
      [] OTHER -> [err |-> ErrBadParameter, gpio |-> <<>>]

\* The levels after a sequence of GPIO calls
RECURSIVE PinsAfter(_, _)
PinsAfter(p, g) ==
    IF g = <<>> THEN p
    ELSE PinsAfter(IF Head(g).what = "WritePin"
                   THEN [p EXCEPT ![Head(g).pin] = Head(g).level]
                   ELSE p,
                   Tail(g))

----------------------------------------------------------------------------
(* Inputs *)

CID_A == <<6, 198, 198>>

Cids == {NilBytes, Bytes(<<>>), Bytes(<<198, 198>>), Bytes(CID_A)}
Cmds == {OOK_ON_ALL, OOK_OFF_1}
Repeats == 0..MaxRepeat

\* outcome of a ReadPayload: data is "error", "nil" (no data) or "frame",
\* and for a frame message and reason are what Decode returned for it
Outcome(data, message, reason) ==
    [data |-> data, message |-> message, reason |-> reason]

NewCall(name, cid, cmd, repeat, rmode) ==
    [name |-> name, cid |-> cid, cmd |-> cmd, repeat |-> repeat,
     rmode |-> rmode, done |-> FALSE,
     entry |-> mode, radio |-> radio, pins |-> pins]

NoMark == [reads |-> 0, events |-> 0]

\* a codec function applied to its input: for encodeByte the input is b, for
\* encodeCommandPayload cid and cmd, for the socket tables socket; err is
\* "pending" until the function has returned
Applied(fn, b, cid, cmd, socket, bytes, err) ==
    [fn |-> fn, b |-> b, cid |-> cid, cmd |-> cmd, socket |-> socket,
     bytes |-> bytes, err |-> err]

NoCodec == Applied("none", 0, NilBytes, OOK_NONE, 0, <<>>, "nil")

\* a device-ID string is a sequence of characters: the hexadecimal digits
\* are their values 0..15, and 16 is a character that is no digit
CID_DEFAULT == <<6, 12, 6, 12, 6>>

ErrInvalidByte == "encoding/hex: invalid byte"

\* decodeHexString: pad to an even length with "0", then hex.DecodeString
decodeHexString(value) ==
    LET padded == IF Len(value) % 2 # 0 THEN <<0>> \o value ELSE value
    IN  IF \E i \in 1..Len(padded) : padded[i] \notin 0..15
        THEN [err |-> ErrInvalidByte, bytes |-> NilBytes]
        ELSE [err |-> "nil",
              bytes |-> Bytes([i \in 1..(Len(padded) \div 2) |->
                                 padded[2 * i - 1] * 16 + padded[2 * i]])]

RepeatAtOpen_AsGiven(r) == r

\* Open: a repeat count of 0 is replaced by the default
RepeatAtOpen(r) == IF r = 0 THEN REPEAT_DEFAULT ELSE r

\* the configuration of a driver: the device-ID string, the repeat count,
\* and whether GPIO, Radio and OpenThings are all given
Config(CID, Repeat, deps) == [CID |-> CID, Repeat |-> Repeat, deps |-> deps]

DefaultConfig == Config(<<>>, 0, TRUE)

\* Open: [err, cid, repeat]
Open(config) ==
    LET CID == IF config.CID = <<>> THEN CID_DEFAULT ELSE config.CID
        Repeat == RepeatAtOpen(config.Repeat)
        dec == decodeHexString(CID)
    IN  IF ~config.deps
        THEN [err |-> ErrBadParameter, cid |-> NilBytes, repeat |-> 0]
        ELSE IF dec.err # "nil"
        THEN [err |-> dec.err, cid |-> NilBytes, repeat |-> 0]
        ELSE [err |-> "nil", cid |-> dec.bytes, repeat |-> Repeat]

\* a configuration Open has not been called with yet
Unopened(config) ==
    [state |-> "config", config |-> config, cid |-> NilBytes, repeat |-> 0,
     err |-> "nil"]

\* the driver after Open(config)
Opened(config) ==
    LET r == Open(config)
    IN  [state |-> IF r.err = "nil" THEN "open" ELSE "failed",
         config |-> config, cid |-> r.cid, repeat |-> r.repeat, err |-> r.err]

NoOuter ==
    [name |-> "none", sockets |-> <<>>, i |-> 0, issued |-> <<>>, ret |-> "nil"]

\* the bus before ReceiveLoop has subscribed: chan is the subscriber's
\* channel ("none", "open", "closed"), queue the events it holds, loop where
\* ReceiveLoop is, e the value it last received, done whether the done
\* channel of ReceiveLoop has been signalled
NoBus ==
    [closed |-> FALSE, chan |-> "none", queue |-> <<>>, loop |-> "start",
     e |-> "nil", done |-> FALSE]

Wirings ==
    [reset : {GPIO_PIN_NONE, "RESET"},
     led1 : {GPIO_PIN_NONE, "LED1"},
     led2 : {GPIO_PIN_NONE, "LED2"}]

Init ==
    /\ mode = "NONE"
    /\ radio \in [mode : {"STDBY"}, modulation : {"OOK", "FSK"}]
    /\ hw = [seq |-> "NONE", state |-> "complete"]
    /\ wiring \in Wirings
    /\ pins = [p \in Pins |-> "LOW"]
    /\ pc = "idle"
    /\ cancelled = FALSE
    /\ call = NewCall("none", NilBytes, OOK_NONE, 0, "NONE")
    /\ ret = "nil"
    /\ log = <<>>
    /\ gpiolog = <<>>
    /\ written = <<>>
    /\ events = <<>>
    /\ reads = 0
    /\ fault = "nil"
    /\ frames = <<>>
    /\ prev = "none"
    /\ prevcfg = 0
    /\ mark = NoMark
    /\ codec = NoCodec
    /\ driver = Opened(DefaultConfig)
    /\ outer = NoOuter
    /\ bus = NoBus

\* l holds all of sequence seq from position i
HoldsAt(l, seq, i) ==
    /\ i + Len(seq) - 1 <= Len(l)
    /\ SubSeq(l, i, i + Len(seq) - 1) = seq

\* how many times the calls of l run setOOKMode or setFSKMode to the end
Configurations(l) ==
    Cardinality({i \in 1..Len(l) :
                    HoldsAt(l, OOKSequence, i) \/ HoldsAt(l, FSKSequence, i)})

\* The previous call, as the call that now starts sees it
Prev ==
    IF ret = "nil" /\ call.name \in {"SendControl", "Receive", "ResetRadio"}
    THEN call.name ELSE "none"

----------------------------------------------------------------------------
(* SendControl *)

\* a parameter check that forgets the missing device address
BadParameter_RepeatOnly(cid, repeat) == repeat = 0

\* the parameter check of SendControl
BadParameter(cid, repeat) == repeat = 0 \/ cid.nil

\* a check that reconfigures on every call
NeedOOK_Always(r, m) == TRUE

\* the transceiver is not known to be in OOK control mode
NeedOOK(r, m) == r.modulation # "OOK" \/ m # "CONTROL"

\* a check that trusts the logical mode alone
NeedFSK_ModeOnly(r, m) == m # "MONITOR"

\* the transceiver is not known to be in FSK monitor mode
NeedFSK(r, m) == r.modulation # "FSK" \/ m # "MONITOR"

\* the logical mode set before the sequence is known to have succeeded
ModeAfter_Always(m, target, failed) == target

\* the logical mode after a configuration sequence for target ran
ModeAfter(m, target, failed) == IF failed THEN m ELSE target

\* what a call returns when transceiver call number failAt failed with e
Returned(failAt, e) == e

TxArm == << Op("SetMode", "TX"), Op("SetSequencer", "true") >>

\* the transceiver calls SendControl issues before WritePayload
SendControlOps(cid, cmd, repeat) ==
    IF BadParameter(cid, repeat) THEN <<>>
    ELSE IF encodeCommandPayload(cid, cmd).err # "nil" THEN <<>>
    ELSE IF NeedOOK(radio, mode) THEN OOKSequence
    ELSE TxArm

\* SendControl up to its return or, on the transmit branch, up to the call
\* of WritePayload
SendControl(cid, cmd, repeat, failAt, e) ==
    LET enc == encodeCommandPayload(cid, cmd)
        ops == SendControlOps(cid, cmd, repeat)
        on == SetLED(wiring, "LED_TX", "HIGH")
    IN  /\ pc = "idle"
        /\ failAt \in 0..Len(ops)
        /\ call' = NewCall("SendControl", cid, cmd, repeat, "NONE")
        /\ UNCHANGED <<prev, prevcfg, mark, codec, driver, bus>>
        /\ cancelled' = FALSE
        /\ events' = <<>>
        /\ reads' = 0
        /\ frames' = <<>>
        /\ fault' = e
        /\ radio' = RadioApplyAll(radio, Succeeded(ops, failAt))
        /\ UNCHANGED wiring
        /\ IF BadParameter(cid, repeat)
           THEN /\ ret' = ErrBadParameter
                /\ log' = <<>>
                /\ UNCHANGED <<mode, hw, pins, gpiolog>>
                /\ written' = <<>>
                /\ pc' = "returned"
           ELSE IF enc.err # "nil"
           THEN /\ ret' = enc.err
                /\ log' = <<>>
                /\ UNCHANGED <<mode, hw, pins, gpiolog>>
                /\ written' = <<>>
                /\ pc' = "returned"
           ELSE IF NeedOOK(radio, mode)
           THEN /\ mode' = ModeAfter(mode, "CONTROL", failAt # 0)
                /\ hw' = HwAfter(hw, "OOK", ops, failAt)
                /\ ret' = Returned(failAt, e)
                /\ log' = Issued(ops, failAt)
                /\ UNCHANGED <<pins, gpiolog>>
                /\ written' = <<>>
                /\ pc' = "returned"
           ELSE IF failAt # 0
           THEN /\ ret' = Returned(failAt, e)
                /\ log' = Issued(ops, failAt)
                /\ UNCHANGED <<mode, hw, pins, gpiolog>>
                /\ written' = <<>>
                /\ pc' = "returned"
           ELSE /\ gpiolog' = on.gpio
                /\ pins' = PinsAfter(pins, on.gpio)
                /\ log' = Append(ops, Op("WritePayload", "payload,repeat"))
                /\ written' = <<[payload |-> enc.payload, repeat |-> repeat]>>
                /\ ret' = "pending"
                /\ pc' = "tx"
                /\ UNCHANGED <<mode, hw>>

Deferred_OnSuccess(e) == e = "nil"

\* a deferred call runs on every return, whatever WritePayload returned
Deferred(e) == TRUE

\* WritePayload returns e ("nil": success); the deferred SetLED runs
WritePayloadReturn(e) ==
    LET off == IF Deferred(e) THEN SetLED(wiring, "LED_TX", "LOW")
               ELSE [err |-> "nil", gpio |-> <<>>]
    IN  /\ pc = "tx"
        /\ ret' = e
        /\ fault' = e
        /\ gpiolog' = gpiolog \o off.gpio
        /\ pins' = PinsAfter(pins, off.gpio)
        /\ pc' = "returned"
        /\ UNCHANGED <<mode, radio, hw, wiring, cancelled, call, log, written,
                       events, reads, frames, prev, prevcfg, mark, codec,
                   driver, outer, bus>>

----------------------------------------------------------------------------
(* Receive *)

\* a loop that looks at the context only after its first read
SelectDone_AfterRead(c) == c /\ reads > 0

SelectDone_Never(c) == FALSE

SelectDone_Late(c) == c /\ reads >= 2

\* the select of the loop takes the Done case when the context is done
SelectDone(c) == c

\* an event emitted only for a message without failure
Emits_OnlyClean(message, reason) == message # "nil" /\ reason = "nil"

\* an event is emitted for a decoded frame
Emits(message, reason) == message # "nil"

\* the FIFO is cleared after a decoded frame
Clears(message, reason) == message # "nil" /\ reason # "nil"

\* a loop that polls again after a read error
AfterRead_Retry(err) == "select"

\* where Receive goes after ReadPayload returned err
AfterRead(err) == IF err # "nil" THEN "returned" ELSE "select"

\* the call that puts the transceiver into receive
RxArm(r) == IF r.mode # "RX" THEN <<Op("SetMode", "RX")>> ELSE <<Op("ClearFIFO", "")>>

Unsupported_NoneOnly(rmode) == rmode = "NONE"

\* only the MONITOR mode is supported
Unsupported(rmode) == rmode # "MONITOR"

\* the transceiver calls Receive issues before its loop
ReceiveOps(rmode) ==
    IF Unsupported(rmode) THEN <<>>
    ELSE LET cfg == IF NeedFSK(radio, mode) THEN FSKSequence ELSE <<>>
         IN  cfg \o RxArm(RadioApplyAll(radio, cfg))

\* Receive up to its loop; done: the context is already done
Receive(rmode, done, failAt, e) ==
    LET ops == ReceiveOps(rmode)
        cfg == IF NeedFSK(radio, mode) THEN FSKSequence ELSE <<>>
        cfgFail == IF failAt \in 1..Len(cfg) THEN failAt ELSE 0
    IN  /\ pc = "idle"
        /\ failAt \in 0..Len(ops)
        /\ call' = [NewCall("Receive", NilBytes, OOK_NONE, 0, rmode)
                        EXCEPT !.done = done]
        /\ UNCHANGED <<prev, prevcfg, mark, codec, driver, outer, bus>>
        /\ cancelled' = done
        /\ events' = <<>>
        /\ reads' = 0
        /\ frames' = <<>>
        /\ written' = <<>>
        /\ gpiolog' = <<>>
        /\ fault' = e
        /\ UNCHANGED <<wiring, pins>>
        /\ IF Unsupported(rmode)
           THEN /\ ret' = ErrNotImplemented
                /\ log' = <<>>
                /\ pc' = "returned"
                /\ UNCHANGED <<mode, radio, hw>>
           ELSE /\ log' = Issued(ops, failAt)
                /\ radio' = RadioApplyAll(radio, Succeeded(ops, failAt))
                /\ mode' = IF cfg = <<>> THEN mode
                           ELSE ModeAfter(mode, "MONITOR", cfgFail # 0)
                /\ hw' = IF cfg = <<>> THEN hw
                         ELSE HwAfter(hw, "FSK", cfg, cfgFail)
                /\ ret' = IF failAt = 0 THEN "pending" ELSE Returned(failAt, e)
                /\ pc' = IF failAt = 0 THEN "select" ELSE "returned"

\* the context given to Receive becomes done (timeout or stop)
Cancel ==
    /\ pc \in {"select", "default", "reading"}
    /\ ~cancelled
    /\ cancelled' = TRUE
    /\ mark' = [reads |-> reads, events |-> Len(events)]
    /\ UNCHANGED <<mode, radio, hw, wiring, pins, pc, call, ret, log, gpiolog,
                   written, events, reads, fault, frames, prev, prevcfg, codec,
                   driver, outer, bus>>

\* the select at the head of the loop: leave, or take the default case
ReceiveSelect ==
    /\ pc = "select"
    /\ IF SelectDone(cancelled)
       THEN /\ ret' = "nil"
            /\ pc' = "returned"
       ELSE /\ reads < MaxReads
            /\ pc' = "default"
            /\ UNCHANGED ret
    /\ UNCHANGED <<mode, radio, hw, wiring, pins, cancelled, call, log, gpiolog,
                   written, events, reads, fault, frames, prev, prevcfg, mark, codec,
                   driver, outer, bus>>

\* the default case: ReadPayload is called with the context
ReadPayloadCall ==
    /\ pc = "default"
    /\ log' = Append(log, Op("ReadPayload", "ctx"))
    /\ reads' = reads + 1
    /\ pc' = "reading"
    /\ UNCHANGED <<mode, radio, hw, wiring, pins, cancelled, call, ret, gpiolog,
                   written, events, fault, frames, prev, prevcfg, mark, codec,
                   driver, outer, bus>>

\* ReadPayload returns err
ReadPayloadError(err) ==
    /\ pc = "reading"
    /\ err # "nil"
    /\ fault' = err
    /\ frames' = Append(frames, Outcome("error", "nil", "nil"))
    /\ pc' = AfterRead(err)
    /\ ret' = IF AfterRead(err) = "returned" THEN err ELSE ret
    /\ UNCHANGED <<mode, radio, hw, wiring, pins, cancelled, call, log, gpiolog,
                   written, events, reads, prev, prevcfg, mark, codec,
                   driver, outer, bus>>

\* ReadPayload returns no data
ReadPayloadNone ==
    /\ pc = "reading"
    /\ frames' = Append(frames, Outcome("nil", "nil", "nil"))
    /\ pc' = AfterRead("nil")
    /\ UNCHANGED <<mode, radio, hw, wiring, pins, cancelled, call, ret, log,
                   gpiolog, written, events, reads, fault, prev, prevcfg, mark, codec,
                   driver, outer, bus>>

\* ReadPayload returns a frame, which Decode turns into (message, reason);
\* clearErr is what ClearFIFO returns if it is called
ReadPayloadData(message, reason, clearErr) ==
    LET on == SetLED(wiring, "LED_RX", "HIGH")
        off == SetLED(wiring, "LED_RX", "LOW")
    IN  /\ pc = "reading"
        /\ frames' = Append(frames, Outcome("frame", message, reason))
        /\ events' = IF Emits(message, reason)
                     THEN Append(events, [message |-> message, reason |-> reason])
                     ELSE events
        /\ IF Clears(message, reason)
           THEN /\ log' = Append(log, Op("ClearFIFO", ""))
                /\ fault' = clearErr
           ELSE /\ clearErr = "nil"
                /\ UNCHANGED <<log, fault>>
        /\ gpiolog' = gpiolog \o on.gpio \o off.gpio
        /\ pins' = PinsAfter(pins, on.gpio \o off.gpio)
        /\ pc' = AfterRead("nil")
        /\ UNCHANGED <<mode, radio, hw, wiring, cancelled, call, ret, written,
                       reads, prev, prevcfg, mark, codec,
                   driver, outer, bus>>

----------------------------------------------------------------------------
(* ResetRadio and MeasureTemperature *)

\* after the reset pulse the transceiver reports what it reported before,
\* or its power-on state
AfterReset(r) == {r, [mode |-> "STDBY", modulation |-> "FSK"]}

NoResetLine_Led(w) == w.led1 = GPIO_PIN_NONE

\* no reset pin was given to Open
NoResetLine(w) == w.reset = GPIO_PIN_NONE

ResetPulse_Inverted(p) == <<PinWrite(p, "LOW"), PinWrite(p, "HIGH")>>

\* reset high for 100ms, then low for 5ms
ResetPulse(p) == <<PinWrite(p, "HIGH"), PinWrite(p, "LOW")>>

\* ResetRadio up to its first wait: the reset pin is made an output, the
\* indicators are lit and the reset line is pulled high
ResetRadio ==
    LET on == SetLED(wiring, "LED_ALL", "HIGH")
        pulse == ResetPulse(wiring.reset)
    IN  /\ pc = "idle"
        /\ call' = NewCall("ResetRadio", NilBytes, OOK_NONE, 0, "NONE")
        /\ UNCHANGED <<prev, prevcfg, mark, codec, driver, outer, bus>>
        /\ cancelled' = FALSE
        /\ events' = <<>>
        /\ reads' = 0
        /\ frames' = <<>>
        /\ written' = <<>>
        /\ log' = <<>>
        /\ fault' = "nil"
        /\ UNCHANGED <<wiring, mode>>
        /\ IF NoResetLine(wiring)
           THEN /\ ret' = ErrNotImplemented
                /\ gpiolog' = <<>>
                /\ pc' = "returned"
                /\ UNCHANGED <<radio, hw, pins>>
           ELSE IF on.err # "nil"
           THEN /\ ret' = on.err
                /\ gpiolog' = <<PinMode(wiring.reset)>> \o on.gpio
                /\ pins' = PinsAfter(pins, gpiolog')
                /\ pc' = "returned"
                /\ UNCHANGED <<radio, hw>>
           ELSE /\ ret' = "pending"
                /\ gpiolog' = <<PinMode(wiring.reset)>> \o on.gpio \o <<pulse[1]>>
                /\ pins' = PinsAfter(pins, gpiolog')
                /\ pc' = "reset100ms"
                /\ UNCHANGED <<radio, hw>>

\* the 100ms are over: the reset line is released, and the transceiver
\* has lost its configuration
ResetRadioRelease ==
    LET pulse == ResetPulse(wiring.reset)
    IN  /\ pc = "reset100ms"
        /\ gpiolog' = Append(gpiolog, pulse[2])
        /\ pins' = PinsAfter(pins, <<pulse[2]>>)
        /\ radio' \in AfterReset(radio)
        /\ hw' = [seq |-> "NONE", state |-> "complete"]
        /\ pc' = "reset5ms"
        /\ UNCHANGED <<mode, wiring, cancelled, call, ret, log, written,
                       events, reads, fault, frames, prev, prevcfg, mark, codec,
                       driver, outer, bus>>

\* the 5ms are over: the indicators are put out and the logical mode is
\* forgotten
ResetRadioReturn ==
    LET off == SetLED(wiring, "LED_ALL", "LOW")
    IN  /\ pc = "reset5ms"
        /\ gpiolog' = gpiolog \o off.gpio
        /\ pins' = PinsAfter(pins, off.gpio)
        /\ ret' = off.err
        /\ mode' = IF off.err # "nil" THEN mode ELSE "NONE"
        /\ pc' = "returned"
        /\ UNCHANGED <<radio, hw, wiring, cancelled, call, log, written,
                       events, reads, fault, frames, prev, prevcfg, mark, codec,
                       driver, outer, bus>>

MeasureTemperature_NoRestore(e1, em, e2) ==
    LET old_mode == radio.mode
        moved == old_mode # "STDBY"
    IN  /\ pc = "idle"
        /\ call' = NewCall("MeasureTemperature", NilBytes, OOK_NONE, 0, "NONE")
        /\ UNCHANGED <<prev, prevcfg, mark, codec, driver, outer, bus>>
        /\ cancelled' = FALSE
        /\ events' = <<>>
        /\ reads' = 0
        /\ frames' = <<>>
        /\ written' = <<>>
        /\ gpiolog' = <<>>
        /\ pc' = "returned"
        /\ UNCHANGED <<mode, hw, wiring, pins>>
        /\ IF moved /\ e1 # "nil"
           THEN /\ em = "nil" /\ e2 = "nil"
                /\ log' = <<Op("SetMode", "STDBY")>>
                /\ ret' = e1
                /\ fault' = e1
                /\ UNCHANGED radio
           ELSE IF moved /\ em # "nil"
           THEN /\ e2 = "nil"
                /\ log' = <<Op("SetMode", "STDBY"),
                            Op("MeasureTemperature", "tempoffset")>>
                /\ radio' = [radio EXCEPT !.mode = "STDBY"]
                /\ ret' = em
                /\ fault' = em
           ELSE IF moved
           THEN /\ log' = <<Op("SetMode", "STDBY"),
                            Op("MeasureTemperature", "tempoffset"),
                            Op("SetMode", old_mode)>>
                /\ radio' = IF e2 # "nil" THEN [radio EXCEPT !.mode = "STDBY"]
                            ELSE radio
                /\ ret' = IF e2 # "nil" THEN e2 ELSE em
                /\ fault' = IF e2 # "nil" THEN e2 ELSE em
           ELSE /\ e1 = "nil" /\ e2 = "nil"
                /\ log' = <<Op("MeasureTemperature", "tempoffset")>>
                /\ ret' = em
                /\ fault' = em
                /\ UNCHANGED radio

\* MeasureTemperature: e1, em, e2 are what SetMode(STDBY), the measurement
\* and SetMode(old_mode) return when they are called
MeasureTemperature(e1, em, e2) ==
    LET old_mode == radio.mode
        moved == old_mode # "STDBY"
    IN  /\ pc = "idle"
        /\ call' = NewCall("MeasureTemperature", NilBytes, OOK_NONE, 0, "NONE")
        /\ UNCHANGED <<prev, prevcfg, mark, codec, driver, outer, bus>>
        /\ cancelled' = FALSE
        /\ events' = <<>>
        /\ reads' = 0
        /\ frames' = <<>>
        /\ written' = <<>>
        /\ gpiolog' = <<>>
        /\ pc' = "returned"
        /\ UNCHANGED <<mode, hw, wiring, pins>>
        /\ IF moved /\ e1 # "nil"
           THEN /\ em = "nil" /\ e2 = "nil"
                /\ log' = <<Op("SetMode", "STDBY")>>
                /\ ret' = e1
                /\ fault' = e1
                /\ UNCHANGED radio
           ELSE IF moved
           THEN /\ log' = <<Op("SetMode", "STDBY"),
                            Op("MeasureTemperature", "tempoffset"),
                            Op("SetMode", old_mode)>>
                /\ radio' = IF e2 # "nil" THEN [radio EXCEPT !.mode = "STDBY"]
                            ELSE radio
                /\ ret' = IF e2 # "nil" THEN e2 ELSE em
                /\ fault' = IF e2 # "nil" THEN e2 ELSE em
           ELSE /\ e1 = "nil" /\ e2 = "nil"
                /\ log' = <<Op("MeasureTemperature", "tempoffset")>>
                /\ ret' = em
                /\ fault' = em
                /\ UNCHANGED radio

----------------------------------------------------------------------------

\* The caller has the result of its call and is ready for its next call:
\* what was recorded of the call is dropped
ResumeCall ==
    /\ pc = "returned"
    /\ pc' = "idle"
    /\ prev' = Prev
    /\ prevcfg' = IF Prev = "none" THEN 0 ELSE Configurations(log)
    /\ call' = NewCall("none", NilBytes, OOK_NONE, 0, "NONE")
    /\ ret' = "nil"
    /\ log' = <<>>
    /\ gpiolog' = <<>>
    /\ written' = <<>>
    /\ events' = <<>>
    /\ reads' = 0
    /\ fault' = "nil"
    /\ frames' = <<>>
    /\ cancelled' = FALSE
    /\ mark' = NoMark
    /\ UNCHANGED <<mode, radio, hw, wiring, pins, codec, driver, bus>>

Resume == ResumeCall /\ UNCHANGED outer

MaybeError == RadioErrors \cup {"nil"}

\* what transceiver call number failAt can return (0: none fails)
FaultsAt(failAt) == IF failAt = 0 THEN {"nil"} ELSE RadioErrors

\* SendControl with every input and every transceiver failure
SendControlAny ==
    /\ pc = "idle"
    /\ UNCHANGED outer
    /\ \E cid \in Cids, cmd \in Cmds, repeat \in Repeats :
        \E failAt \in 0..Len(SendControlOps(cid, cmd, repeat)) :
            \E e \in FaultsAt(failAt) :
                SendControl(cid, cmd, repeat, failAt, e)

\* Receive with every input and every transceiver failure
ReceiveAny ==
    /\ pc = "idle"
    /\ \E rmode \in MIHOME_MODES :
        \E failAt \in 0..Len(ReceiveOps(rmode)) :
            \E e \in FaultsAt(failAt) :
                \E done \in IF failAt = 0 /\ ~Unsupported(rmode)
                            THEN BOOLEAN ELSE {FALSE} :
                    Receive(rmode, done, failAt, e)

\* every outcome of a ReadPayload in flight
ReadPayloadReturn ==
    \/ \E err \in RadioErrors : ReadPayloadError(err)
    \/ ReadPayloadNone
    \/ \E message \in {"nil", "M"}, reason \in {"nil", "EDecode"} :
        \E clearErr \in IF Clears(message, reason) THEN {"nil", "EIO"} ELSE {"nil"} :
            ReadPayloadData(message, reason, clearErr)

MeasureTemperatureAny ==
    /\ pc = "idle"
    /\ \E e1 \in IF radio.mode # "STDBY" THEN MaybeError ELSE {"nil"} :
        \E em \in IF e1 = "nil" THEN MaybeError ELSE {"nil"} :
            \E e2 \in IF radio.mode # "STDBY" /\ e1 = "nil" THEN MaybeError ELSE {"nil"} :
                MeasureTemperature(e1, em, e2)

\* The driver under serialized calls
Next ==
    \/ SendControlAny
    \/ \E e \in MaybeError : WritePayloadReturn(e)
    \/ ReceiveAny
    \/ Cancel
    \/ ReceiveSelect
    \/ ReadPayloadCall
    \/ ReadPayloadReturn
    \/ ResetRadio
    \/ ResetRadioRelease
    \/ ResetRadioReturn
    \/ MeasureTemperatureAny
    \/ Resume

Spec == Init /\ [][Next]_vars

\* every outcome of a ReadPayload in flight, given that a ReadPayload whose
\* context is done returns without error
ReadPayloadReturnLive ==
    \/ \E err \in RadioErrors : ~cancelled /\ ReadPayloadError(err)
    \/ ReadPayloadNone
    \/ \E message \in {"nil", "M"}, reason \in {"nil", "EDecode"} :
        \E clearErr \in IF Clears(message, reason) THEN {"nil", "EIO"} ELSE {"nil"} :
            ReadPayloadData(message, reason, clearErr)

NextLive ==
    \/ SendControlAny
    \/ \E e \in MaybeError : WritePayloadReturn(e)
    \/ ReceiveAny
    \/ Cancel
    \/ ReceiveSelect
    \/ ReadPayloadCall
    \/ ReadPayloadReturnLive
    \/ ResetRadio
    \/ ResetRadioRelease
    \/ ResetRadioReturn
    \/ MeasureTemperatureAny
    \/ Resume

\* The goroutine in Receive keeps running: a select that can complete does,
\* the default case calls ReadPayload, and a ReadPayload whose context is done
\* returns.
SpecLive ==
    /\ Init
    /\ [][NextLive]_vars
    /\ WF_vars(ReceiveSelect)
    /\ WF_vars(ReadPayloadCall)
    /\ WF_vars(cancelled /\ ReadPayloadReturnLive)

----------------------------------------------------------------------------
(* Properties *)

Completed(name) == pc = "returned" /\ call.name = name

Last(l) == l[Len(l)]

WritePayloadOp == Op("WritePayload", "payload,repeat")

\* the call began with a configuration sequence
StartsConfig(l) == l # <<>> /\ l[1] = Op("SetMode", "STDBY")

OOKComplete == [seq |-> "OOK", state |-> "complete"]
FSKComplete == [seq |-> "FSK", state |-> "complete"]

\* C1: a SendControl with a 3-byte cid and repeat > 0 that returns success
\* has put the transceiver into the OOK control configuration and handed the
\* payload of (cid, cmd) to WritePayload exactly once with that repeat,
\* whatever the logical mode was at its start.
C1_SuccessfulSendTransmits ==
    (Completed("SendControl") /\ ret = "nil"
        /\ Len(call.cid.bytes) = 3 /\ call.repeat > 0)
    => /\ mode = "CONTROL"
       /\ radio.modulation = "OOK"
       /\ written = << [payload |-> encodeCommandPayload(call.cid, call.cmd).payload,
                        repeat |-> call.repeat] >>

\* C2: WritePayload is in flight only while the logical mode is CONTROL and
\* the modulation is OOK, ReadPayload only while the logical mode is MONITOR
\* and the modulation is FSK.
C2_IOOnlyInItsMode ==
    /\ pc = "tx" => (mode = "CONTROL" /\ radio.modulation = "OOK")
    /\ pc = "reading" => (mode = "MONITOR" /\ radio.modulation = "FSK")

\* a ReadPayload in flight in a Receive that followed a successful
\* SendControl and had to leave the control mode
C2_Witness ==
    /\ pc = "reading"
    /\ prev = "SendControl"
    /\ call.entry = "CONTROL"
    /\ call.radio.modulation = "OOK"

\* C3: whenever SendControl or Receive skips its configuration sequence and
\* goes on to radio I/O, the configuration last applied to the transceiver is
\* the complete sequence of that mode: no step of a sequence was applied and
\* the sequence then abandoned.
C3_NoPartialConfigurationAssumed ==
    /\ (call.name = "SendControl" /\ log # <<>> /\ ~StartsConfig(log))
        => hw = OOKComplete
    /\ (call.name = "Receive" /\ log # <<>> /\ ~StartsConfig(log))
        => hw = FSKComplete

\* C4: when a step of a configuration sequence fails no later step is
\* issued, the call returns that error and the logical mode is what it was
\* before the call; the logical mode is the target only when the whole
\* sequence succeeded.
C4_FailedStepAbortsSequence ==
    (call.name \in {"SendControl", "Receive"} /\ StartsConfig(log))
    => LET sequence == IF call.name = "SendControl" THEN OOKSequence
                       ELSE FSKSequence
           target == IF call.name = "SendControl" THEN "CONTROL" ELSE "MONITOR"
       IN  IF fault # "nil" /\ Len(log) <= Len(sequence)
           THEN /\ log = SubSeq(sequence, 1, Len(log))
                /\ pc = "returned"
                /\ ret = fault
                /\ mode = call.entry
           ELSE /\ SubSeq(log, 1, Len(sequence)) = sequence
                /\ mode = target

\* a Receive called in control mode whose fifth configuration step failed
C4_Witness ==
    /\ Completed("Receive")
    /\ call.entry = "CONTROL"
    /\ fault = "ETIMEDOUT"
    /\ Len(log) = 5

\* two successful calls of the same operation in a row, the second returned
SecondOf(name) == Completed(name) /\ ret = "nil" /\ prev = name

\* C5 as stated: over two consecutive successful SendControl calls the OOK
\* configuration sequence is issued exactly once, never in the second call,
\* which issues only SetMode(TX), SetSequencer(true) and WritePayload; over
\* two consecutive successful Receive calls the FSK configuration sequence is
\* issued exactly once.
C5_SequenceIssuedExactlyOnce ==
    /\ SecondOf("SendControl")
        => /\ prevcfg + Configurations(log) = 1
           /\ log = TxArm \o <<WritePayloadOp>>
    /\ SecondOf("Receive")
        => prevcfg + Configurations(log) = 1

\* C5: the second of two consecutive successful SendControl calls issues no
\* configuration step, only SetMode(TX), SetSequencer(true) and WritePayload,
\* and the second of two consecutive successful Receive calls issues no
\* configuration step either.  Over the two calls the sequence is issued at
\* most once, by the first call: a successful call runs the sequence once
\* when it starts with the driver in another logical mode or the transceiver
\* in the other modulation, and not at all otherwise.
C5_ModeRequestIdempotent ==
    /\ (Completed("SendControl") /\ ret = "nil" /\ prev = "SendControl")
        => log = TxArm \o <<WritePayloadOp>>
    /\ (call.name = "Receive" /\ prev = "Receive" /\ ret \in {"pending", "nil"})
        => /\ log # <<>>
           /\ log[1] \in {Op("SetMode", "RX"), Op("ClearFIFO", "")}
           /\ \A i \in 2..Len(log) : log[i].op \in {"ReadPayload", "ClearFIFO"}
    /\ (SecondOf("SendControl") \/ SecondOf("Receive"))
        => /\ Configurations(log) = 0
           /\ prevcfg \in {0, 1}
    /\ (Completed("SendControl") /\ ret = "nil")
        => Configurations(log) =
              IF call.radio.modulation # "OOK" \/ call.entry # "CONTROL"
              THEN 1 ELSE 0
    /\ (Completed("Receive") /\ ret = "nil")
        => Configurations(log) =
              IF call.radio.modulation # "FSK" \/ call.entry # "MONITOR"
              THEN 1 ELSE 0

\* a second successful SendControl in a row, which transmitted, after a
\* first that ran the configuration sequence
C5_Witness ==
    /\ Completed("SendControl")
    /\ ret = "nil"
    /\ prev = "SendControl"
    /\ prevcfg = 1
    /\ written # <<>>

\* C6: SendControl with repeat 0 or a nil cid returns the invalid-parameter
\* error, having issued no transceiver call and no GPIO call and changed
\* neither the logical mode nor an indicator line.
C6_BadParameterBeforeIO ==
    (call.name = "SendControl" /\ (call.repeat = 0 \/ call.cid.nil))
    => /\ pc = "returned"
       /\ ret = ErrBadParameter
       /\ log = <<>>
       /\ written = <<>>
       /\ gpiolog = <<>>
       /\ mode = call.entry
       /\ radio = call.radio
       /\ pins = call.pins

\* a SendControl with a nil cid and a repeat count, called in control mode
C6_Witness ==
    /\ Completed("SendControl")
    /\ call.cid.nil
    /\ call.repeat > 0
    /\ call.entry = "CONTROL"
    /\ call.radio.modulation = "OOK"

\* C7: after every frame for which the decoder reported a failure, with or
\* without a message, the FIFO is cleared before the next ReadPayload and the
\* loop keeps running.
C7_DecodeFailureClearsFIFO ==
    (call.name = "Receive" /\ frames # <<>> /\ Last(frames).data = "frame"
        /\ Last(frames).reason # "nil" /\ pc # "reading")
    => /\ Last(log) = Op("ClearFIFO", "")
       /\ pc \in {"select", "default"}
            \/ (pc = "returned" /\ ret = "nil" /\ cancelled)

\* the events a sequence of read outcomes calls for: one per frame decoded
\* to a message, with that message and the decoder's failure
RECURSIVE EventsFor(_)
EventsFor(fs) ==
    IF fs = <<>> THEN <<>>
    ELSE IF Head(fs).data = "frame" /\ Head(fs).message # "nil"
         THEN <<[message |-> Head(fs).message, reason |-> Head(fs).reason]>>
                \o EventsFor(Tail(fs))
         ELSE EventsFor(Tail(fs))

\* C8: Receive emits exactly one event per frame for which the decoder
\* returned a message, carrying the message and the decoder's failure, and
\* none for any other read.
C8_OneEventPerMessage ==
    call.name = "Receive" => events = EventsFor(frames)

\* a Receive that read a frame without message and a frame with a message
\* and a failure
C8_Witness ==
    /\ Completed("Receive")
    /\ Len(frames) = 2
    /\ frames[1].data = "frame" /\ frames[1].message = "nil"
    /\ Len(events) = 1
    /\ events[1].reason # "nil"

\* C9: a ReadPayload error ends Receive with that error: it is the last read,
\* no event is emitted for it.
C9_ReadErrorIsFatal ==
    \A i \in 1..Len(frames) :
        frames[i].data = "error"
        => /\ i = Len(frames)
           /\ reads = i
           /\ pc = "returned"
           /\ ret = fault
           /\ ret \in RadioErrors
           /\ Last(log) = Op("ReadPayload", "ctx")
           /\ Len(events) <= i - 1

\* a Receive whose second read failed after a first read that emitted
C9_Witness ==
    /\ Completed("Receive")
    /\ Len(frames) = 2
    /\ frames[2].data = "error"
    /\ Len(events) = 1

\* a Receive whose context was done when it was called
StartedCancelled == call.name = "Receive" /\ call.done

\* C10: Receive(MONITOR) called with a context that is already done issues
\* no ReadPayload and emits no event; once its mode setup has succeeded its
\* next step is to return nil.
C10_CancelledBeforeStart ==
    /\ [](StartedCancelled
            => /\ reads = 0
               /\ frames = <<>>
               /\ events = <<>>
               /\ \A i \in 1..Len(log) : log[i].op # "ReadPayload"
               /\ pc \in {"select", "returned"}
               /\ (pc = "returned" /\ fault = "nil") => ret = "nil")
    /\ [][(StartedCancelled /\ pc = "select")
            => (pc' = "returned" /\ ret' = "nil" /\ log' = log)]_vars

\* a Receive called in control mode with a done context, returned nil after
\* the whole FSK sequence
C10_Witness ==
    /\ Completed("Receive")
    /\ call.done
    /\ call.entry = "CONTROL"
    /\ ret = "nil"
    /\ Len(log) = Len(FSKSequence) + 1

----------------------------------------------------------------------------
(* Open, and On and Off of the opened driver *)

\* device-ID strings: none, the default, the default padded, "ABCD", "1G"
CidStrings ==
    {<<>>, CID_DEFAULT, <<0, 6, 12, 6, 12, 6>>, <<10, 11, 12, 13>>, <<1, 16>>}

Configs ==
    {Config(c[1], c[2], TRUE) : c \in CidStrings \X Repeats}
        \cup {Config(<<>>, 0, FALSE)}

\* socket arguments of On and Off: up to MaxSockets of these
SocketArgs == {1, 4, 5}
SocketLists == UNION {[1..n -> SocketArgs] : n \in 0..MaxSockets}

\* Open is called with the configuration
OpenDriver ==
    /\ driver.state = "config"
    /\ pc = "idle"
    /\ driver' = Opened(driver.config)
    /\ UNCHANGED <<mode, radio, hw, wiring, pins, pc, cancelled, call, ret, log,
                   gpiolog, written, events, reads, fault, frames, prev, prevcfg, mark,
                   codec, outer, bus>>

\* On(sockets...) or Off(sockets...) is called
OnOff(name, sockets) ==
    /\ driver.state = "open"
    /\ pc = "idle"
    /\ outer.name = "none"
    /\ outer' = [name |-> name, sockets |-> sockets, i |-> 0, issued |-> <<>>,
                 ret |-> "pending"]
    /\ UNCHANGED <<mode, radio, hw, wiring, pins, pc, cancelled, call, ret, log,
                   gpiolog, written, events, reads, fault, frames, prev, prevcfg, mark,
                   codec, driver, bus>>

AllCommand_First(name) == IF name = "On" THEN OOK_ON_1 ELSE OOK_OFF_1

AllCommand(name) == IF name = "On" THEN OOK_ON_ALL ELSE OOK_OFF_ALL

CommandFor(name, socket) ==
    IF name = "On" THEN onCommandForSocket(socket) ELSE offCommandForSocket(socket)

\* On or Off is at the head of its loop (or, without sockets, at its start)
AtLoop == outer.name # "none" /\ outer.ret = "pending" /\ pc = "idle"

NextCommand_Reversed ==
    IF outer.sockets = <<>>
    THEN [cmd |-> AllCommand(outer.name), err |-> "nil"]
    ELSE CommandFor(outer.name, outer.sockets[Len(outer.sockets) - outer.i])

\* the command of the next SendControl: [cmd, err]
NextCommand ==
    IF outer.sockets = <<>>
    THEN [cmd |-> AllCommand(outer.name), err |-> "nil"]
    ELSE CommandFor(outer.name, outer.sockets[outer.i + 1])

\* sockets are left (without sockets: the one SendControl is to be issued)
More == IF outer.sockets = <<>> THEN outer.i = 0 ELSE outer.i < Len(outer.sockets)

\* the socket has no command: On or Off returns the error
OnOffBadSocket ==
    /\ AtLoop
    /\ More
    /\ NextCommand.err # "nil"
    /\ outer' = [outer EXCEPT !.ret = NextCommand.err]
    /\ UNCHANGED <<mode, radio, hw, wiring, pins, pc, cancelled, call, ret, log,
                   gpiolog, written, events, reads, fault, frames, prev, prevcfg, mark,
                   codec, driver, bus>>

\* SendControl is called with the stored address and repeat count
OnOffSendControl ==
    /\ AtLoop
    /\ More
    /\ NextCommand.err = "nil"
    /\ \E failAt \in 0..Len(SendControlOps(driver.cid, NextCommand.cmd,
                                             driver.repeat)) :
          \E e \in FaultsAt(failAt) :
              SendControl(driver.cid, NextCommand.cmd, driver.repeat, failAt, e)
    /\ outer' = [outer EXCEPT
                    !.i = @ + 1,
                    !.issued = Append(@, [cid |-> driver.cid,
                                          cmd |-> NextCommand.cmd,
                                          repeat |-> driver.repeat])]

\* SendControl has returned to On or Off: an error is returned, otherwise
\* the loop goes on
OnOffSendControlReturn ==
    /\ outer.name # "none"
    /\ outer.ret = "pending"
    /\ ResumeCall
    /\ outer' = IF ret # "nil" THEN [outer EXCEPT !.ret = ret] ELSE outer

\* no socket is left: success
OnOffDone ==
    /\ AtLoop
    /\ ~More
    /\ outer' = [outer EXCEPT !.ret = "nil"]
    /\ UNCHANGED <<mode, radio, hw, wiring, pins, pc, cancelled, call, ret, log,
                   gpiolog, written, events, reads, fault, frames, prev, prevcfg, mark,
                   codec, driver, bus>>

\* the caller has the result of On or Off
OnOffReturn ==
    /\ outer.name # "none"
    /\ outer.ret # "pending"
    /\ outer' = NoOuter
    /\ UNCHANGED <<mode, radio, hw, wiring, pins, pc, cancelled, call, ret, log,
                   gpiolog, written, events, reads, fault, frames, prev, prevcfg, mark,
                   codec, driver, bus>>

OnOffAny ==
    /\ pc = "idle"
    /\ outer.name = "none"
    /\ \E name \in {"On", "Off"}, sockets \in SocketLists : OnOff(name, sockets)

\* a driver about to be opened with some configuration, both indicators
\* wired
InitOn ==
    /\ mode = "NONE"
    /\ radio \in [mode : {"STDBY"}, modulation : {"OOK", "FSK"}]
    /\ hw = [seq |-> "NONE", state |-> "complete"]
    /\ wiring = [reset |-> GPIO_PIN_NONE, led1 |-> "LED1", led2 |-> "LED2"]
    /\ pins = [p \in Pins |-> "LOW"]
    /\ pc = "idle"
    /\ cancelled = FALSE
    /\ call = NewCall("none", NilBytes, OOK_NONE, 0, "NONE")
    /\ ret = "nil"
    /\ log = <<>>
    /\ gpiolog = <<>>
    /\ written = <<>>
    /\ events = <<>>
    /\ reads = 0
    /\ fault = "nil"
    /\ frames = <<>>
    /\ prev = "none"
    /\ prevcfg = 0
    /\ mark = NoMark
    /\ codec = NoCodec
    /\ driver \in {Unopened(c) : c \in Configs}
    /\ outer = NoOuter
    /\ bus = NoBus

NextOn ==
    \/ OpenDriver
    \/ OnOffAny
    \/ OnOffBadSocket
    \/ OnOffSendControl
    \/ \E e \in MaybeError : WritePayloadReturn(e)
    \/ OnOffSendControlReturn
    \/ OnOffDone
    \/ OnOffReturn

SpecOn == InitOn /\ [][NextOn]_vars

----------------------------------------------------------------------------
(* SetLED called by the user of the driver *)

\* the roles, and a value that is none of them
Leds == {"LED_ALL", "LED_1", "LED_2", "LED_RX", "LED_TX", "LED_OTHER"}

SetLEDCall(led, state) ==
    LET r == SetLED(wiring, led, state)
    IN  /\ pc = "idle"
        /\ call' = [led |-> led, state |-> state]
                        @@ NewCall("SetLED", NilBytes, OOK_NONE, 0, "NONE")
        /\ ret' = r.err
        /\ gpiolog' = r.gpio
        /\ pins' = PinsAfter(pins, r.gpio)
        /\ pc' = "returned"
        /\ cancelled' = FALSE
        /\ log' = <<>>
        /\ written' = <<>>
        /\ events' = <<>>
        /\ reads' = 0
        /\ fault' = "nil"
        /\ frames' = <<>>
        /\ UNCHANGED <<mode, radio, hw, wiring, prev, prevcfg, mark, codec, driver, outer,
                       bus>>

SetLEDAny ==
    /\ pc = "idle"
    /\ \E led \in Leds, state \in {"LOW", "HIGH"} : SetLEDCall(led, state)

NextLED ==
    \/ SetLEDAny
    \/ Resume

\* an opened driver with any wiring, whose user sets the indicators
SpecLED == Init /\ [][NextLED]_vars

----------------------------------------------------------------------------
(* The event bus, Close, and the ReceiveLoop of the command-line tool *)

\* events of a clean message and of a decode failure
BusEvents == {"OTEvent", "OTEventWithReason"}

\* ReceiveLoop subscribes
Subscribe ==
    /\ bus.loop = "start"
    /\ ~bus.closed
    /\ bus' = [bus EXCEPT !.chan = "open", !.loop = "select"]
    /\ UNCHANGED <<mode, radio, hw, wiring, pins, pc, cancelled, call, ret, log,
                   gpiolog, written, events, reads, fault, frames, prev, prevcfg, mark,
                   codec, driver, outer>>

\* emitMessage: the bus hands the event to the subscriber's channel
Emit(ev) ==
    /\ ~bus.closed
    /\ bus.chan = "open"
    /\ Len(bus.queue) < MaxQueue
    /\ bus' = [bus EXCEPT !.queue = Append(@, ev)]
    /\ UNCHANGED <<mode, radio, hw, wiring, pins, pc, cancelled, call, ret, log,
                   gpiolog, written, events, reads, fault, frames, prev, prevcfg, mark,
                   codec, driver, outer>>

\* Close: the bus closes the subscriber channels, the driver drops its
\* collaborators and its address
CloseDriver ==
    /\ driver.state = "open"
    /\ pc = "idle"
    /\ bus' = [bus EXCEPT !.closed = TRUE,
                          !.chan = IF @ = "open" THEN "closed" ELSE @]
    /\ driver' = [driver EXCEPT !.state = "closed", !.cid = NilBytes]
    /\ UNCHANGED <<mode, radio, hw, wiring, pins, pc, cancelled, call, ret, log,
                   gpiolog, written, events, reads, fault, frames, prev, prevcfg, mark,
                   codec, outer>>

\* the done channel of ReceiveLoop is signalled
Done ==
    /\ ~bus.done
    /\ bus' = [bus EXCEPT !.done = TRUE]
    /\ UNCHANGED <<mode, radio, hw, wiring, pins, pc, cancelled, call, ret, log,
                   gpiolog, written, events, reads, fault, frames, prev, prevcfg, mark,
                   codec, driver, outer>>

\* the select of ReceiveLoop takes the done case
LoopSelectDone ==
    /\ bus.loop = "select"
    /\ bus.done
    /\ bus' = [bus EXCEPT !.loop = "break"]
    /\ UNCHANGED <<mode, radio, hw, wiring, pins, pc, cancelled, call, ret, log,
                   gpiolog, written, events, reads, fault, frames, prev, prevcfg, mark,
                   codec, driver, outer>>

\* a receive from the channel can proceed: it holds an event, or it is
\* closed (a receive from a closed channel yields the zero value)
ChannelReady == bus.queue # <<>> \/ bus.chan = "closed"

\* the select of ReceiveLoop takes the case e := <-evt
LoopSelectEvent ==
    /\ bus.loop = "select"
    /\ ChannelReady
    /\ bus' = IF bus.queue # <<>>
              THEN [bus EXCEPT !.e = Head(bus.queue), !.queue = Tail(@),
                               !.loop = "handle"]
              ELSE [bus EXCEPT !.e = "nil", !.loop = "handle"]
    /\ UNCHANGED <<mode, radio, hw, wiring, pins, pc, cancelled, call, ret, log,
                   gpiolog, written, events, reads, fault, frames, prev, prevcfg, mark,
                   codec, driver, outer>>

\* the body of the case: an OTEvent is printed, anything else is skipped,
\* and the loop goes on
LoopHandle ==
    /\ bus.loop = "handle"
    /\ bus' = [bus EXCEPT !.loop = "select"]
    /\ UNCHANGED <<mode, radio, hw, wiring, pins, pc, cancelled, call, ret, log,
                   gpiolog, written, events, reads, fault, frames, prev, prevcfg, mark,
                   codec, driver, outer>>

\* after the loop: Unsubscribe and return
LoopExit ==
    /\ bus.loop = "break"
    /\ bus' = [bus EXCEPT !.loop = "returned", !.chan = "none", !.queue = <<>>]
    /\ UNCHANGED <<mode, radio, hw, wiring, pins, pc, cancelled, call, ret, log,
                   gpiolog, written, events, reads, fault, frames, prev, prevcfg, mark,
                   codec, driver, outer>>

InitSub ==
    /\ mode = "NONE"
    /\ radio \in [mode : {"STDBY"}, modulation : {"OOK", "FSK"}]
    /\ hw = [seq |-> "NONE", state |-> "complete"]
    /\ wiring = [reset |-> GPIO_PIN_NONE, led1 |-> "LED1", led2 |-> "LED2"]
    /\ pins = [p \in Pins |-> "LOW"]
    /\ pc = "idle"
    /\ cancelled = FALSE
    /\ call = NewCall("none", NilBytes, OOK_NONE, 0, "NONE")
    /\ ret = "nil"
    /\ log = <<>>
    /\ gpiolog = <<>>
    /\ written = <<>>
    /\ events = <<>>
    /\ reads = 0
    /\ fault = "nil"
    /\ frames = <<>>
    /\ prev = "none"
    /\ prevcfg = 0
    /\ mark = NoMark
    /\ codec = NoCodec
    /\ driver = Opened(DefaultConfig)
    /\ outer = NoOuter
    /\ bus = NoBus

NextSub ==
    \/ Subscribe
    \/ \E ev \in BusEvents : Emit(ev)
    \/ CloseDriver
    \/ Done
    \/ LoopSelectDone
    \/ LoopSelectEvent
    \/ LoopHandle
    \/ LoopExit

\* The goroutine of ReceiveLoop keeps running: a select with a ready case
\* completes, the case body and the code after the loop run.  A select
\* chooses at random among its ready cases, so the done case is taken once
\* it is ready again and again.  Nothing obliges the done channel to be
\* signalled or events to arrive.
SpecSub ==
    /\ InitSub
    /\ [][NextSub]_vars
    /\ WF_vars(LoopSelectEvent)
    /\ SF_vars(LoopSelectDone)
    /\ WF_vars(LoopHandle)
    /\ WF_vars(LoopExit)

----------------------------------------------------------------------------
(* The codec functions applied to their inputs *)

ByteValues == 0..255

\* addresses: nil and every slice of up to MaxCidLen of these bytes, two of
\* which differ only above bit 19 of a 3-byte address
CidBytes == {6, 22, 198}
CodecCids ==
    {NilBytes} \cup {Bytes(b) : b \in UNION {[1..n -> CidBytes] : n \in 0..MaxCidLen}}

\* commands: table values and one above 4 bits
CodecCmds == {OOK_NONE, OOK_ON_ALL, OOK_OFF_4, 29}

Sockets == 0..MaxSocket

\* the inputs a codec function can be called with, its result pending
CodecInputs ==
    {Applied("encodeByte", b, NilBytes, OOK_NONE, 0, <<>>, "pending") :
        b \in ByteValues}
    \cup {Applied("encodeCommandPayload", 0, c[1], c[2], 0, <<>>, "pending") :
            c \in CodecCids \X CodecCmds}
    \cup {Applied(c[1], 0, NilBytes, OOK_NONE, c[2], <<>>, "pending") :
            c \in {"onCommandForSocket", "offCommandForSocket"} \X Sockets}

\* the function named in codec has not returned yet
Calling(fn) == codec.fn = fn /\ codec.err = "pending"

EncodeByte ==
    /\ Calling("encodeByte")
    /\ codec' = [codec EXCEPT !.bytes = encodeByte(codec.b), !.err = "nil"]
    /\ UNCHANGED <<mode, radio, hw, wiring, pins, pc, cancelled, call, ret, log,
                   gpiolog, written, events, reads, fault, frames, prev, prevcfg, mark,
                   driver, outer, bus>>

EncodeCommandPayload ==
    /\ Calling("encodeCommandPayload")
    /\ LET r == encodeCommandPayload(codec.cid, codec.cmd)
       IN  codec' = [codec EXCEPT !.bytes = r.payload, !.err = r.err]
    /\ UNCHANGED <<mode, radio, hw, wiring, pins, pc, cancelled, call, ret, log,
                   gpiolog, written, events, reads, fault, frames, prev, prevcfg, mark,
                   driver, outer, bus>>

\* for the socket tables cmd is the command returned
OnCommandForSocket ==
    /\ Calling("onCommandForSocket")
    /\ LET r == onCommandForSocket(codec.socket)
       IN  codec' = [codec EXCEPT !.cmd = r.cmd, !.err = r.err]
    /\ UNCHANGED <<mode, radio, hw, wiring, pins, pc, cancelled, call, ret, log,
                   gpiolog, written, events, reads, fault, frames, prev, prevcfg, mark,
                   driver, outer, bus>>

OffCommandForSocket ==
    /\ Calling("offCommandForSocket")
    /\ LET r == offCommandForSocket(codec.socket)
       IN  codec' = [codec EXCEPT !.cmd = r.cmd, !.err = r.err]
    /\ UNCHANGED <<mode, radio, hw, wiring, pins, pc, cancelled, call, ret, log,
                   gpiolog, written, events, reads, fault, frames, prev, prevcfg, mark,
                   driver, outer, bus>>

\* a driver not in use, and a codec function about to be called
InitCodec ==
    /\ mode = "NONE"
    /\ radio = [mode |-> "STDBY", modulation |-> "FSK"]
    /\ hw = [seq |-> "NONE", state |-> "complete"]
    /\ wiring = [reset |-> GPIO_PIN_NONE, led1 |-> GPIO_PIN_NONE,
                 led2 |-> GPIO_PIN_NONE]
    /\ pins = [p \in Pins |-> "LOW"]
    /\ pc = "idle"
    /\ cancelled = FALSE
    /\ call = NewCall("none", NilBytes, OOK_NONE, 0, "NONE")
    /\ ret = "nil"
    /\ log = <<>>
    /\ gpiolog = <<>>
    /\ written = <<>>
    /\ events = <<>>
    /\ reads = 0
    /\ fault = "nil"
    /\ frames = <<>>
    /\ prev = "none"
    /\ prevcfg = 0
    /\ mark = NoMark
    /\ codec \in CodecInputs
    /\ driver = Opened(DefaultConfig)
    /\ outer = NoOuter
    /\ bus = NoBus

NextCodec ==
    \/ EncodeByte
    \/ EncodeCommandPayload
    \/ OnCommandForSocket
    \/ OffCommandForSocket

SpecCodec == InitCodec /\ [][NextCodec]_vars

----------------------------------------------------------------------------

\* a Receive is in its loop
InLoop == call.name = "Receive" /\ pc \in {"select", "default", "reading"}

\* C11: once the context of a running Receive is done, and given that a
\* ReadPayload with a done context returns without error, Receive eventually
\* leaves its loop and returns nil; events are published only while a
\* ReadPayload of a running Receive is being handled, so none is published
\* after the return.
C11_CancelTerminates ==
    /\ (InLoop /\ cancelled) ~> (Completed("Receive") /\ ret = "nil")
    /\ [][events' # events /\ events' # <<>>
            => pc = "reading" /\ call.name = "Receive"]_vars
    /\ [][Completed("Receive") => events' \in {events, <<>>}]_vars

C11_Witness ==
    /\ Completed("Receive")
    /\ ~call.done
    /\ cancelled
    /\ ret = "nil"
    /\ reads >= 1
    /\ events # <<>>

\* the ReadPayload calls of the running Receive
ReadPayloadOps == SelectSeq(log, LAMBDA o : o.op = "ReadPayload")

\* C12: after the context is done Receive calls ReadPayload at most once more
\* and publishes at most one more event, and every ReadPayload is passed the
\* context.
C12_LatencyOneRead ==
    /\ cancelled => /\ reads - mark.reads <= 1
                    /\ Len(events) - mark.events <= 1
    /\ call.name = "Receive" =>
           /\ Len(ReadPayloadOps) = reads
           /\ \A i \in 1..Len(ReadPayloadOps) : ReadPayloadOps[i].arg = "ctx"

C12_Witness ==
    /\ Completed("Receive")
    /\ cancelled
    /\ ret = "nil"
    /\ reads - mark.reads = 1
    /\ Len(events) - mark.events = 1

\* the position of the first op of the running call that satisfies is, or 0
FirstOp(is(_)) ==
    IF \E i \in 1..Len(log) : is(log[i])
    THEN CHOOSE i \in 1..Len(log) : is(log[i]) /\ \A j \in 1..(i - 1) : ~is(log[j])
    ELSE 0

\* C13: a Receive entered with logical mode MONITOR that does not reconfigure
\* clears the FIFO before its first ReadPayload, whatever calls preceded it.
C13_FIFOClearedBeforeFirstRead ==
    LET read == FirstOp(LAMBDA o : o.op = "ReadPayload")
        clear == FirstOp(LAMBDA o : o.op = "ClearFIFO")
    IN  (/\ call.name = "Receive"
         /\ call.entry = "MONITOR"
         /\ ~NeedFSK(call.radio, call.entry)
         /\ read > 0)
        => (clear > 0 /\ clear < read)

\* C14: Receive with a requested mode other than MONITOR returns
\* ErrNotImplemented having issued no transceiver or GPIO call and published
\* no event, with the logical mode, the transceiver and the pins as they were.
C14_OtherModesNotImplemented ==
    (call.name = "Receive" /\ call.rmode \in {"NONE", "CONTROL"})
        => /\ pc = "returned"
           /\ ret = ErrNotImplemented
           /\ log = <<>>
           /\ gpiolog = <<>>
           /\ events = <<>>
           /\ reads = 0
           /\ mode = call.entry
           /\ radio = call.radio
           /\ pins = call.pins

C14_Witness ==
    /\ Completed("Receive")
    /\ call.rmode = "CONTROL"
    /\ call.entry = "MONITOR"
    /\ ret = ErrNotImplemented

\* C15: ResetRadio without a reset pin returns ErrNotImplemented and changes
\* nothing: no GPIO call, the pins and the logical mode as they were.
C15_ResetWithoutLine ==
    (Completed("ResetRadio") /\ wiring.reset = GPIO_PIN_NONE)
        => /\ ret = ErrNotImplemented
           /\ gpiolog = <<>>
           /\ log = <<>>
           /\ pins = call.pins
           /\ mode = call.entry
           /\ radio = call.radio

C15_Witness ==
    /\ Completed("ResetRadio")
    /\ wiring.reset = GPIO_PIN_NONE
    /\ wiring.led1 # GPIO_PIN_NONE
    /\ call.entry = "CONTROL"
    /\ ret = ErrNotImplemented

\* SetPinMode and WritePin of every wired indicator, LED_1 first
AllLeds(s) ==
    (IF wiring.led1 # GPIO_PIN_NONE
        THEN <<PinMode(wiring.led1), PinWrite(wiring.led1, s)>> ELSE <<>>)
    \o (IF wiring.led2 # GPIO_PIN_NONE
        THEN <<PinMode(wiring.led2), PinWrite(wiring.led2, s)>> ELSE <<>>)

\* C16: ResetRadio with a reset pin succeeds having, in this order, set the
\* reset pin to output, turned every wired indicator on, written the reset
\* pin high then low, turned every wired indicator off and set the logical
\* mode to NONE; the SendControl or Receive that follows it starts with the
\* configuration sequence, and runs all of it if no transceiver call fails.
C16_ResetSequence ==
    /\ (Completed("ResetRadio") /\ wiring.reset # GPIO_PIN_NONE)
        => /\ ret = "nil"
           /\ gpiolog = <<PinMode(wiring.reset)>>
                            \o AllLeds("HIGH")
                            \o <<PinWrite(wiring.reset, "HIGH"),
                                 PinWrite(wiring.reset, "LOW")>>
                            \o AllLeds("LOW")
           /\ mode = "NONE"
           /\ \A p \in Pins : pins[p] # "HIGH"
    /\ (/\ prev = "ResetRadio"
        /\ Completed("SendControl") \/ (call.name = "Receive" /\ pc # "idle")
        /\ ret \notin {ErrBadParameter, ErrNotImplemented, ErrAppError})
        => /\ call.entry = "NONE"
           /\ StartsConfig(log)
           /\ fault = "nil" =>
                \/ call.name = "SendControl" /\ log = OOKSequence
                \/ /\ call.name = "Receive"
                   /\ Len(log) > Len(FSKSequence)
                   /\ SubSeq(log, 1, Len(FSKSequence)) = FSKSequence

C16_Witness ==
    /\ prev = "ResetRadio"
    /\ Completed("SendControl")
    /\ call.radio.modulation = "OOK"
    /\ log = OOKSequence
    /\ wiring.led1 # GPIO_PIN_NONE
    /\ wiring.led2 # GPIO_PIN_NONE

\* bit k of byte b, bit 0 the most significant
Bit(b, k) == (b \div (2 ^ (7 - k))) % 2

\* byte i (1..4) of the encoding of b, from its bits 2i-2 and 2i-1
EncodedPair(b, i) ==
    (IF Bit(b, 2 * i - 2) = 0 THEN 8 ELSE 14) * 16
        + (IF Bit(b, 2 * i - 1) = 0 THEN 8 ELSE 14)

\* nibble k (0..7) of 4 encoded bytes, nibble 0 the high half of the first
NibbleAt(enc, k) ==
    IF k % 2 = 0 THEN enc[(k \div 2) + 1] \div 16 ELSE enc[(k \div 2) + 1] % 16

RECURSIVE DecodeFrom(_, _)
DecodeFrom(enc, k) ==
    IF k > 7 THEN 0
    ELSE (IF NibbleAt(enc, k) = 14 THEN 2 ^ (7 - k) ELSE 0) + DecodeFrom(enc, k + 1)

\* the inverse nibble mapping: 0x8 is a 0 bit, 0xE a 1 bit
decodeByte(enc) == DecodeFrom(enc, 0)

\* C17: for every byte b, encodeByte(b) is 4 bytes holding 8 nibbles, one per
\* bit of b from the most significant, 0x8 for a 0 bit and 0xE for a 1 bit,
\* and the inverse nibble mapping gives b back.
C17_EncodeByte ==
    (codec.fn = "encodeByte" /\ codec.err # "pending")
        => /\ Len(codec.bytes) = 4
           /\ \A k \in 0..7 :
                NibbleAt(codec.bytes, k) = IF Bit(codec.b, k) = 0 THEN 8 ELSE 14
           /\ decodeByte(codec.bytes) = codec.b

C17_Witness ==
    /\ codec.fn = "encodeByte"
    /\ codec.b = 165
    /\ codec.bytes = <<232, 232, 142, 142>>

\* byte j (1..16) of the payload of a 3-byte address a and a command c
PayloadByte(a, c, j) ==
    IF j = 1 THEN 128
    ELSE IF j <= 4 THEN 0
    ELSE IF j <= 14
    THEN LET q == j - 2                \* position in the 12 encoded bytes
         IN  EncodedPair(a[((q - 1) \div 4) + 1], ((q - 1) % 4) + 1)
    ELSE EncodedPair(c, j - 12)

\* C18: for a 3-byte address encodeCommandPayload returns the 16 bytes
\* preamble, last 10 bytes of the encoded address, last 2 bytes of the
\* encoded command (one fixed payload for 06 C6 C6 and ON_ALL); for any
\* other address, nil and empty included, it returns ErrAppError and no
\* payload.
C18_CommandPayload ==
    (codec.fn = "encodeCommandPayload" /\ codec.err # "pending")
        => /\ (~codec.cid.nil /\ Len(codec.cid.bytes) = 3)
                => /\ codec.err = "nil"
                   /\ Len(codec.bytes) = 16
                   /\ \A j \in 1..16 :
                        codec.bytes[j] = PayloadByte(codec.cid.bytes, codec.cmd, j)
           /\ (codec.cid.nil \/ Len(codec.cid.bytes) # 3)
                => /\ codec.err = ErrAppError
                   /\ codec.bytes = <<>>
           /\ (codec.cid = Bytes(<<6, 198, 198>>) /\ codec.cmd = 13)
                => codec.bytes = <<128, 0, 0, 0, 142, 232, 238, 136, 142, 232,
                                   238, 136, 142, 232, 238, 142>>

C18_Witness ==
    /\ codec.fn = "encodeCommandPayload"
    /\ codec.cid = Bytes(<<198, 6, 198>>)
    /\ codec.cmd = OOK_OFF_4
    /\ codec.err = "nil"
    /\ Len(codec.bytes) = 16

\* C19: whenever encodeCommandPayload returns a payload the bytes it drops
\* are 0x88,0x88 for the address and for the command, and no other accepted
\* (address, command) pair has the same payload.
C19_DroppedBitsZero ==
    (codec.fn = "encodeCommandPayload" /\ codec.err = "nil")
        => /\ SubSeq(encodeByteArray(codec.cid).bytes, 1, 2) = <<136, 136>>
           /\ SubSeq(encodeByte(codec.cmd), 1, 2) = <<136, 136>>
           /\ \A cid \in CodecCids, cmd \in CodecCmds :
                (/\ encodeCommandPayload(cid, cmd).err = "nil"
                 /\ <<cid, cmd>> # <<codec.cid, codec.cmd>>)
                    => encodeCommandPayload(cid, cmd).payload # codec.bytes

\* the socket functions applied to the sockets 1..4
SocketCommands ==
    [f \in {"onCommandForSocket", "offCommandForSocket"}, s \in 1..4 |->
        IF f = "onCommandForSocket" THEN onCommandForSocket(s).cmd
        ELSE offCommandForSocket(s).cmd]

\* C20: onCommandForSocket and offCommandForSocket succeed for sockets 1..4
\* with eight pairwise distinct commands, none of them ON_ALL, OFF_ALL or
\* NONE, and return (NONE, ErrBadParameter) for socket 0 and sockets >= 5.
C20_SocketCommands ==
    (codec.fn \in {"onCommandForSocket", "offCommandForSocket"} /\ codec.err # "pending")
        => /\ codec.socket \in 1..4
                => /\ codec.err = "nil"
                   /\ codec.cmd \notin {OOK_ON_ALL, OOK_OFF_ALL, OOK_NONE}
                   /\ \A k \in DOMAIN SocketCommands :
                        k # <<codec.fn, codec.socket>>
                            => SocketCommands[k] # codec.cmd
           /\ codec.socket \notin 1..4
                => /\ codec.err = ErrBadParameter
                   /\ codec.cmd = OOK_NONE

C20_Witness ==
    /\ codec.fn = "offCommandForSocket"
    /\ codec.socket = 3
    /\ codec.err = "nil"
    /\ codec.cmd = 10

\* On or Off has returned to its caller
OnOffReturned == outer.name # "none" /\ outer.ret # "pending"

PerSocketCommands == {15, 14, 7, 6, 11, 10, 3, 2}

\* C21: On() and Off() without sockets issue exactly one SendControl, with
\* the stored address and repeat count and the command ON_ALL (On) or
\* OFF_ALL (Off), and never a per-socket command.
C21_AllSockets ==
    (outer.name # "none" /\ outer.sockets = <<>>)
        => /\ Len(outer.issued) <= 1
           /\ OnOffReturned => Len(outer.issued) = 1
           /\ \A j \in 1..Len(outer.issued) :
                /\ outer.issued[j].cid = driver.cid
                /\ outer.issued[j].repeat = driver.repeat
                /\ outer.issued[j].cmd = IF outer.name = "On" THEN 13 ELSE 12
                /\ outer.issued[j].cmd \notin PerSocketCommands
           /\ (pc # "idle" /\ outer.ret = "pending")
                => /\ call.name = "SendControl"
                   /\ call.cmd = IF outer.name = "On" THEN 13 ELSE 12

C21_Witness ==
    /\ OnOffReturned
    /\ outer.name = "Off"
    /\ outer.sockets = <<>>
    /\ outer.ret = "nil"
    /\ outer.issued = <<[cid |-> Bytes(<<6, 198, 198>>), cmd |-> 12, repeat |-> 8]>>

\* the command of a socket in 1..4
SocketCommand(name, socket) ==
    IF name = "On" THEN <<15, 7, 11, 3>>[socket] ELSE <<14, 6, 10, 2>>[socket]

\* C28: On and Off with sockets issue their SendControl calls in argument
\* order, each with its socket's command, and stop at the first invalid
\* socket or failed SendControl, returning that error with the earlier
\* calls issued; when nothing fails there is one call per socket.
C28_InOrderUntilFailure ==
    /\ [](  (outer.name # "none" /\ outer.sockets # <<>>)
            => /\ Len(outer.issued) = outer.i
               /\ outer.i <= Len(outer.sockets)
               /\ \A j \in 1..Len(outer.issued) :
                    /\ outer.sockets[j] \in 1..4
                    /\ outer.issued[j].cmd =
                            SocketCommand(outer.name, outer.sockets[j])
                    /\ outer.issued[j].cid = driver.cid
                    /\ outer.issued[j].repeat = driver.repeat
               /\ (OnOffReturned /\ outer.ret = "nil")
                    => outer.i = Len(outer.sockets)
               /\ (OnOffReturned /\ outer.ret # "nil" /\ outer.i = 0)
                    => /\ outer.ret = ErrBadParameter
                       /\ outer.sockets[1] \notin 1..4)
    /\ [][(outer.name # "none" /\ outer.sockets # <<>> /\ outer.ret = "pending"
             /\ pc = "returned" /\ ret # "nil")
            => (outer'.ret = ret /\ outer'.issued = outer.issued)]_vars
    /\ [][(outer.name # "none" /\ outer.sockets # <<>> /\ outer.ret = "pending"
             /\ pc = "idle" /\ outer.i < Len(outer.sockets)
             /\ outer.sockets[outer.i + 1] \notin 1..4)
            => (outer'.ret = ErrBadParameter /\ outer'.issued = outer.issued)]_vars
    /\ [][OnOffReturned => outer' = NoOuter]_vars

C28_Witness ==
    /\ OnOffReturned
    /\ outer.name = "On"
    /\ outer.sockets = <<4, 5>>
    /\ outer.ret = ErrBadParameter
    /\ Len(outer.issued) = 1
    /\ outer.issued[1].cmd = 3

\* C25: the address Open stored is 3 bytes, so On and Off never return the
\* error of a payload length mismatch, whatever device-ID string was
\* configured.
C25_AddressThreeBytes ==
    /\ driver.state = "open"
        => (~driver.cid.nil /\ Len(driver.cid.bytes) = 3)
    /\ OnOffReturned => outer.ret # ErrAppError

\* C29: the repeat count of an opened driver is at least 1 (the default 8
\* for a configured 0, else the configured value), every SendControl of On
\* and Off is called with it, and On and Off return ErrBadParameter only for
\* a socket outside 1..4.
C29_RepeatAtLeastOne ==
    /\ driver.state = "open"
        => /\ driver.repeat >= 1
           /\ driver.repeat = IF driver.config.Repeat = 0 THEN 8
                               ELSE driver.config.Repeat
    /\ \A j \in 1..Len(outer.issued) : outer.issued[j].repeat >= 1
    /\ (outer.name # "none" /\ call.name = "SendControl")
        => (call.repeat >= 1 /\ ret # ErrBadParameter)
    /\ (OnOffReturned /\ outer.ret = ErrBadParameter)
        => /\ outer.i < Len(outer.sockets)
           /\ outer.sockets[outer.i + 1] \notin 1..4

C29_Witness ==
    /\ driver.state = "open"
    /\ driver.config.Repeat = 0
    /\ OnOffReturned
    /\ outer.ret = "nil"
    /\ outer.issued # <<>>
    /\ outer.issued[1].repeat = 8

\* SetPinMode and WritePin of one pin
LedWrite(p, s) == <<PinMode(p), PinWrite(p, s)>>

\* C22: SetLED(LED_ALL) never fails and writes exactly the wired pins;
\* LED_1 and LED_2 return ErrNotImplemented and write nothing when their pin
\* is not wired; LED_RX and LED_TX return nil and write nothing when no
\* indicator is wired; any other role returns ErrBadParameter.
C22_SetLEDErrors ==
    Completed("SetLED") =>
        /\ call.led = "LED_ALL"
            => (ret = "nil" /\ gpiolog = AllLeds(call.state))
        /\ (call.led = "LED_1" /\ wiring.led1 = GPIO_PIN_NONE)
            => (ret = ErrNotImplemented /\ gpiolog = <<>> /\ pins = call.pins)
        /\ (call.led = "LED_1" /\ wiring.led1 # GPIO_PIN_NONE)
            => (ret = "nil" /\ gpiolog = LedWrite(wiring.led1, call.state))
        /\ (call.led = "LED_2" /\ wiring.led2 = GPIO_PIN_NONE)
            => (ret = ErrNotImplemented /\ gpiolog = <<>> /\ pins = call.pins)
        /\ (call.led = "LED_2" /\ wiring.led2 # GPIO_PIN_NONE)
            => (ret = "nil" /\ gpiolog = LedWrite(wiring.led2, call.state))
        /\ call.led \in {"LED_RX", "LED_TX"} => ret = "nil"
        /\ (/\ call.led \in {"LED_RX", "LED_TX"}
            /\ wiring.led1 = GPIO_PIN_NONE
            /\ wiring.led2 = GPIO_PIN_NONE)
            => (gpiolog = <<>> /\ pins = call.pins)
        /\ call.led = "LED_OTHER"
            => (ret = ErrBadParameter /\ gpiolog = <<>> /\ pins = call.pins)
        /\ \A i \in 1..Len(gpiolog) : gpiolog[i].pin # GPIO_PIN_NONE

C22_Witness ==
    /\ Completed("SetLED")
    /\ call.led = "LED_2"
    /\ wiring.led1 # GPIO_PIN_NONE
    /\ wiring.led2 = GPIO_PIN_NONE
    /\ ret = ErrNotImplemented

\* the pin of a role when at least one indicator is wired
RolePin(led) ==
    IF wiring.led1 # GPIO_PIN_NONE /\ wiring.led2 # GPIO_PIN_NONE
    THEN IF led = "LED_RX" THEN wiring.led1 ELSE wiring.led2
    ELSE IF wiring.led1 # GPIO_PIN_NONE THEN wiring.led1
    ELSE wiring.led2

\* C23: with both indicators wired RX is LED_1's pin and TX LED_2's; with
\* only one wired both roles are that pin; so SetLED(RX, s) and
\* SetLED(TX, s) succeed and write s to a wired pin whenever an indicator is
\* wired.
C23_IndicatorFallback ==
    (/\ Completed("SetLED")
     /\ call.led \in {"LED_RX", "LED_TX"}
     /\ wiring.led1 # GPIO_PIN_NONE \/ wiring.led2 # GPIO_PIN_NONE)
        => /\ ret = "nil"
           /\ RolePin(call.led) # GPIO_PIN_NONE
           /\ gpiolog = LedWrite(RolePin(call.led), call.state)
           /\ pins[RolePin(call.led)] = call.state

C23_Witness ==
    /\ Completed("SetLED")
    /\ call.led = "LED_RX"
    /\ call.state = "HIGH"
    /\ wiring.led1 = GPIO_PIN_NONE
    /\ wiring.led2 = "LED2"
    /\ pins["LED2"] = "HIGH"

\* C24: MeasureTemperature leaves the logical mode alone; when no SetMode
\* fails the transceiver is in the mode it was in, the restoring SetMode
\* being issued also when the measurement failed; when the restoring
\* SetMode fails its error is returned.
C24_TemperatureRestoresMode ==
    [][\A e1 \in MaybeError, em \in MaybeError, e2 \in MaybeError :
          MeasureTemperature(e1, em, e2)
            => /\ mode' = mode
               /\ (e1 = "nil" /\ e2 = "nil") => radio'.mode = radio.mode
               /\ (radio.mode # "STDBY" /\ e1 = "nil")
                    => Last(log') = Op("SetMode", radio.mode)
               /\ (radio.mode # "STDBY" /\ e1 = "nil" /\ e2 # "nil")
                    => ret' = e2
               /\ (e1 = "nil" /\ e2 = "nil") => ret' = em]_vars

C24_Witness ==
    /\ Completed("MeasureTemperature")
    /\ mode = "MONITOR"
    /\ call.radio.mode = "RX"
    /\ radio.mode = "RX"
    /\ Len(log) = 3
    /\ ret \in RadioErrors

\* the levels written by the running call, in order
Written(g) == SelectSeq(g, LAMBDA c : c.what = "WritePin")

\* every raise is followed by a lowering, and nothing else is written
Bracketed(g) ==
    /\ Len(Written(g)) % 2 = 0
    /\ \A i \in 1..Len(Written(g)) :
            Written(g)[i].level = IF i % 2 = 1 THEN "HIGH" ELSE "LOW"

\* C27: the TX indicator is high while WritePayload runs and is lowered
\* before SendControl returns, also when WritePayload failed; the RX
\* indicator raised by Receive is lowered before the next ReadPayload and
\* before Receive returns, and is not high while a read is in flight.
C27_IndicatorBracketing ==
    /\ (call.name = "SendControl" /\ pc = "tx")
        => /\ Written(gpiolog) = IF ledtx(wiring) = GPIO_PIN_NONE THEN <<>>
                                  ELSE <<PinWrite(ledtx(wiring), "HIGH")>>
           /\ ledtx(wiring) # GPIO_PIN_NONE => pins[ledtx(wiring)] = "HIGH"
    /\ Completed("SendControl")
        => /\ Bracketed(gpiolog)
           /\ \A p \in Pins : pins[p] = "LOW"
           /\ (written # <<>> /\ ledtx(wiring) # GPIO_PIN_NONE)
                => Written(gpiolog) = <<PinWrite(ledtx(wiring), "HIGH"),
                                        PinWrite(ledtx(wiring), "LOW")>>
    /\ (call.name = "Receive" /\ pc # "idle")
        => /\ Bracketed(gpiolog)
           /\ \A p \in Pins : pins[p] = "LOW"
           /\ \A i \in 1..Len(Written(gpiolog)) :
                Written(gpiolog)[i].pin = ledrx(wiring)
           /\ ledrx(wiring) # GPIO_PIN_NONE
                => Len(Written(gpiolog)) =
                     2 * Cardinality({i \in 1..Len(frames) : frames[i].data = "frame"})

C27_Witness ==
    /\ Completed("SendControl")
    /\ written # <<>>
    /\ ret \in RadioErrors
    /\ wiring.led2 = "LED2"
    /\ Written(gpiolog) = <<PinWrite("LED2", "HIGH"), PinWrite("LED2", "LOW")>>

\* C26: when the driver is closed the subscriber channel is closed, and the
\* ReceiveLoop reading from it then terminates, whether or not its done
\* channel is ever signalled.
C26_CloseEndsSubscriberLoop ==
    /\ [](bus.closed => bus.chan # "open")
    /\ (bus.chan = "closed") ~> (bus.loop = "returned")

\* once the done channel is signalled the loop does return
DoneEndsSubscriberLoop == (bus.done /\ bus.loop # "start") ~> (bus.loop = "returned")

\* the loop spinning on the closed channel: it has received the zero value
\* with the done channel not signalled
ClosedChannelReceive ==
    bus.chan = "closed" /\ bus.loop = "handle" /\ bus.e = "nil" /\ ~bus.done

====
